---- MODULE Spec2Model ----
(***************************************************************************)
(* retrowin32: the guest memory allocators (win32/src/winapi/alloc.rs),   *)
(* the scratch buffer and call bridge (win32/src/shims_raw.rs) and the    *)
(* export resolver of kernel32 (win32/src/winapi/kernel32/dll.rs).        *)
(*                                                                         *)
(* Guest memory is modelled byte by byte.  A FreeNode is the #[repr(C)]   *)
(* pair { size: u32, next: u32 }: size at offset 0, next at offset 4.     *)
(* Spec runs the bump Arena and the first-fit free-list Heap; SpecBridge  *)
(* runs a bare ScratchSpace, the Shims with the code they emit executed   *)
(* instruction by instruction, and DLL::resolve on top of the Shims.      *)
(***************************************************************************)
EXTENDS Integers, Sequences, FiniteSets, TLC

\* ------------------------------------------------------------------ bounds
\* Bytes of guest memory in the model; an access past it is a fault.
MemSize == 128
\* Base address and initial byte length of the heap's range.
HeapAddr == 8
HeapSize == 64
\* Base address and byte length of the arena's range.
ArenaAddr == 8
ArenaSize == 16
\* Number of alloc and free calls in one run.
MaxOps == 6

\* Request sizes the callers use.  They and every address of the model are
\* far below 2^32, so no u32 addition of the code wraps here.
Sizes == {0, 1, 4, 100}
\* How the growth provider answers a request: nothing, part of it, all of it.
GrowPolicies == {"none", "part", "all"}

VARIABLES
    kind,        \* which implementation of the Alloc trait is under test
    mem,         \* guest memory, one byte per address
    free,        \* HeapInfo.free: head of the FreeNode list, 0 when empty
    next,        \* ArenaInfo.next: offset of the arena's cursor
    mapEnd,      \* end of the mapping that backs the heap (Mappings)
    status,      \* "ok" while the process runs, else how it stopped
    hist,        \* the alloc and free calls made so far, with their results
    sized,       \* the size calls made since the last alloc or free call
    live,        \* allocations returned and not yet freed: <<addr, size>>
    slen,        \* ScratchSpace.len: capacity of the scratch region
    ofs,         \* ScratchSpace.ofs: the write cursor
    buf,         \* host memory from ScratchSpace.ptr on, one byte per offset
    shims,       \* Shims: call64_addr, tramp32_addr, machine_ptr, esp
    stubs,       \* what add and add_todo returned so far, in call order
    blast,       \* the last scratch or bridge operation and its result
    dll          \* kernel32 DLL: name, pe::DLL names and ordinals, builtin

allocVars == <<mem, free, next, mapEnd, hist, sized, live>>
bridgeVars == <<slen, ofs, buf, shims, stubs, blast, dll>>
vars == <<kind, status, allocVars, bridgeVars>>

\* ------------------------------------------------------- guest memory (Mem)
Byte(v, i) == (v \div (256 ^ i)) % 256

\* Mem::get::<u32>
Get32(m, a) == m[a] + 256 * m[a + 1] + 65536 * m[a + 2] + 16777216 * m[a + 3]

\* Mem::put::<u32>
Put32(m, a, v) ==
    [m EXCEPT ![a] = Byte(v, 0), ![a + 1] = Byte(v, 1),
              ![a + 2] = Byte(v, 2), ![a + 3] = Byte(v, 3)]

\* The n bytes at a lie inside guest memory.
InMem(a, n) == a >= 0 /\ a + n <= MemSize

\* FreeNode fields, read through FreeNode::get.
NodeSize(m, a) == Get32(m, a)
NodeNext(m, a) == Get32(m, a + 4)

\* *FreeNode::get(mem, a) = FreeNode { size, next }
PutNode(m, a, size, nxt) == Put32(Put32(m, a, size), a + 4, nxt)

\* align32 rounding down: n & !3.
align32_down(n) == (n \div 4) * 4

\* fn align32
align32(n) == ((n + 3) \div 4) * 4

\* ------------------------------------------------------------ Mappings::grow
\* The provider grants at most what was asked and at most what guest memory
\* still has room for after the heap's mapping.
Grow(mend, requested, policy) ==
    LET room == IF MemSize > mend THEN MemSize - mend ELSE 0
        want == CASE policy = "none" -> 0
                  [] policy = "part" -> requested \div 2
                  [] OTHER -> requested
    IN  IF want <= room THEN want ELSE room

\* --------------------------------------------------------------- Heap::alloc
\* Fits with the comparison made strict.
Fits_strict(node_size, alloc_size) == node_size > alloc_size

\* node.size >= alloc_size
Fits(node_size, alloc_size) == node_size >= alloc_size

\* SpaceNeeded asking for the whole padded request.
SpaceNeeded_whole(alloc_size, node_size) == alloc_size

\* let space_needed = alloc_size - node.size
SpaceNeeded(alloc_size, node_size) == alloc_size - node_size

\* FreeNode::get(self.mem, cur).size > alloc_size + 8
ShouldSplit(node_size, alloc_size) == node_size > alloc_size + 8

NoGrow == <<>>

Last(seq) == seq[Len(seq)]

\* The while loop of Heap::alloc.  seen holds the nodes the walk has passed:
\* the loop writes nothing before it leaves, so a walk that comes back to a
\* node it has passed never ends.
RECURSIVE AllocScan(_, _, _, _, _, _, _, _)
AllocScan(m, mend, prev, cur, blocks, alloc_size, policy, seen) ==
    IF cur = 0
    THEN [out |-> "end", mem |-> m, mapEnd |-> mend, prev |-> prev, cur |-> 0,
          blocks |-> blocks, grows |-> NoGrow, sizeBefore |-> 0, sizeAfter |-> 0]
    ELSE IF cur \in seen
    THEN [out |-> "hang", mem |-> m, mapEnd |-> mend, prev |-> prev, cur |-> cur,
          blocks |-> blocks, grows |-> NoGrow, sizeBefore |-> 0, sizeAfter |-> 0]
    ELSE IF ~InMem(cur, 8)
    THEN [out |-> "fault", mem |-> m, mapEnd |-> mend, prev |-> prev, cur |-> cur,
          blocks |-> blocks, grows |-> NoGrow, sizeBefore |-> 0, sizeAfter |-> 0]
    ELSE
    LET nsize == NodeSize(m, cur)
        nnext == NodeNext(m, cur)
    IN  IF Fits(nsize, alloc_size)
        THEN [out |-> "found", mem |-> m, mapEnd |-> mend, prev |-> prev,
              cur |-> cur, blocks |-> blocks + 1, grows |-> NoGrow,
              sizeBefore |-> nsize, sizeAfter |-> nsize]
        ELSE IF nnext = 0
        THEN LET space_needed == SpaceNeeded(alloc_size, nsize)
                 granted == Grow(mend, space_needed, policy)
                 grown == nsize + granted
                 m2 == Put32(m, cur, grown)
             IN  [out |-> IF grown < alloc_size THEN "oom_resize" ELSE "found",
                  mem |-> m2, mapEnd |-> mend + granted, prev |-> prev,
                  cur |-> cur, blocks |-> blocks + 1,
                  grows |-> << <<HeapAddr, space_needed, granted>> >>,
                  sizeBefore |-> nsize, sizeAfter |-> grown]
        ELSE AllocScan(m, mend, cur, nnext, blocks + 1, alloc_size, policy,
                       seen \cup {cur})

\* fn alloc(&mut self, size: u32) -> u32
HeapAlloc(m, head, mend, size, policy) ==
    LET alloc_size == align32(size + 4)
        s == AllocScan(m, mend, 0, head, 0, alloc_size, policy, {})
        stop(out) == [out |-> out, mem |-> s.mem, free |-> head,
                      mapEnd |-> s.mapEnd, ret |-> 0, grows |-> s.grows,
                      cur |-> s.cur, sizeBefore |-> s.sizeBefore,
                      sizeAfter |-> s.sizeAfter]
    IN  IF s.out = "end" THEN stop("oom_empty")
        ELSE IF s.out # "found" THEN stop(s.out)
        ELSE
        LET cur == s.cur
            csize == NodeSize(s.mem, cur)
            split == ShouldSplit(csize, alloc_size)
            nxt == IF split THEN cur + alloc_size ELSE NodeNext(s.mem, cur)
        IN  IF split /\ ~InMem(nxt, 8) THEN stop("fault")
            ELSE IF s.prev # 0 /\ ~InMem(s.prev, 8) THEN stop("fault")
            ELSE
            LET m1 == IF split
                      THEN PutNode(s.mem, nxt, csize - alloc_size,
                                   NodeNext(s.mem, cur))
                      ELSE s.mem
                m2 == IF s.prev = 0 THEN m1 ELSE Put32(m1, s.prev + 4, nxt)
                m3 == Put32(m2, cur, size)
            IN  [out |-> "ok", mem |-> m3,
                 free |-> IF s.prev = 0 THEN nxt ELSE head,
                 mapEnd |-> s.mapEnd, ret |-> cur + 4, grows |-> s.grows,
                 cur |-> cur, sizeBefore |-> s.sizeBefore,
                 sizeAfter |-> s.sizeAfter]

\* ---------------------------------------------------------------- Heap::size
\* fn size(&self, addr: u32) -> u32
HeapSizeOf(m, addr) ==
    IF InMem(addr - 4, 4)
    THEN [out |-> "ok", ret |-> Get32(m, addr - 4)]
    ELSE [out |-> "fault", ret |-> 0]

\* -------------------------------------------------- HeapInfo::try_coalesce
\* The loop of try_coalesce on the node at addr.  It ends when the node's
\* next is not the address right after it.  A merge that leaves memory as
\* it was (a successor of size 0 that points at itself) repeats for ever.
RECURSIVE TryCoalesce(_, _)
TryCoalesce(m, addr) ==
    IF ~InMem(addr, 8) THEN [out |-> "fault", mem |-> m]
    ELSE
    LET size == NodeSize(m, addr)
        nxt == NodeNext(m, addr)
    IN  IF nxt # addr + size THEN [out |-> "ok", mem |-> m]
        ELSE IF ~InMem(nxt, 8) THEN [out |-> "fault", mem |-> m]
        ELSE
        LET m2 == PutNode(m, addr, size + NodeSize(m, nxt), NodeNext(m, nxt))
        IN  IF m2 = m THEN [out |-> "hang", mem |-> m]
            ELSE TryCoalesce(m2, addr)

\* ---------------------------------------------------------------- Heap::free
\* let free_size = self.size(addr) + 4
FreeSize(size) == size + 4

\* while next < addr { prev = next; next = FreeNode::get(self.mem, next).next }
\* The walk does not test for the end of the list: with next = 0 it reads
\* the node at address 0.  seen is as in AllocScan.
RECURSIVE FreeWalk(_, _, _, _, _)
FreeWalk(m, addr, prev, nxt, seen) ==
    IF ~(nxt < addr) THEN [out |-> "ok", prev |-> prev, next |-> nxt]
    ELSE IF nxt \in seen THEN [out |-> "hang", prev |-> prev, next |-> nxt]
    ELSE IF ~InMem(nxt, 8) THEN [out |-> "fault", prev |-> prev, next |-> nxt]
    ELSE FreeWalk(m, addr, nxt, NodeNext(m, nxt), seen \cup {nxt})

\* fn free(&mut self, addr: u32)
HeapFree(m, head, a) ==
    LET free_size == FreeSize(Get32(m, a - 4))
        addr == a - 4
        w == FreeWalk(m, addr, 0, head, {})
    IN  IF w.out # "ok" THEN [out |-> w.out, mem |-> m, free |-> head]
        ELSE IF ~InMem(addr, 8) THEN [out |-> "fault", mem |-> m, free |-> head]
        ELSE
        LET m1 == PutNode(m, addr, free_size, w.next)
        IN  IF w.prev > 0
            THEN LET c == TryCoalesce(Put32(m1, w.prev + 4, addr), w.prev)
                 IN  [out |-> c.out, mem |-> c.mem, free |-> head]
            ELSE LET c == TryCoalesce(m1, addr)
                 IN  [out |-> c.out, mem |-> c.mem, free |-> addr]

\* -------------------------------------------------------------- Arena::alloc
\* ArenaFull refusing a request that fills the arena exactly.
ArenaFull_exact(nxt, alloc_size, size) == nxt + alloc_size >= size

\* self.info.next + alloc_size > self.info.size
ArenaFull(nxt, alloc_size, size) == nxt + alloc_size > size

\* ArenaAlloc that writes the header but leaves the cursor where it was.
ArenaAlloc_nobump(m, nxt, size) ==
    LET alloc_size == align32(size + 4)
        addr == ArenaAddr + nxt
    IN  IF ArenaFull(nxt, alloc_size, ArenaSize)
        THEN [out |-> "ok", mem |-> m, next |-> nxt, ret |-> 0]
        ELSE IF ~InMem(addr, 4)
        THEN [out |-> "fault", mem |-> m, next |-> nxt, ret |-> 0]
        ELSE [out |-> "ok", mem |-> Put32(m, addr, size),
              next |-> nxt, ret |-> addr + 4]

\* fn alloc(&mut self, size: u32) -> u32
ArenaAlloc(m, nxt, size) ==
    LET alloc_size == align32(size + 4)
        addr == ArenaAddr + nxt
    IN  IF ArenaFull(nxt, alloc_size, ArenaSize)
        THEN [out |-> "ok", mem |-> m, next |-> nxt, ret |-> 0]
        ELSE IF ~InMem(addr, 4)
        THEN [out |-> "fault", mem |-> m, next |-> nxt, ret |-> 0]
        ELSE [out |-> "ok", mem |-> Put32(m, addr, size),
              next |-> nxt + alloc_size, ret |-> addr + 4]

\* --------------------------------------------------------------- Arena::size
\* assert!(addr >= self.info.addr + 4 && addr < self.info.addr + self.info.size)
ArenaSizeAssert(addr) == addr >= ArenaAddr + 4 /\ addr < ArenaAddr + ArenaSize

\* fn size(&self, addr: u32) -> u32
ArenaSizeOf(m, addr) ==
    IF ~ArenaSizeAssert(addr) THEN [out |-> "assert", ret |-> 0]
    ELSE IF ~InMem(addr - 4, 4) THEN [out |-> "fault", ret |-> 0]
    ELSE [out |-> "ok", ret |-> Get32(m, addr - 4)]

\* ------------------------------------------------------------------- calls
\* One entry of hist: the call, its argument, what it returned and how it
\* ended; for Heap::alloc also the calls it made to the growth provider
\* (<<base, requested, granted>>), the node it took and that node's size
\* when the scan reached it and when the scan left it.
Call(op, arg, ret, out, grows, cur, sizeBefore, sizeAfter) ==
    [op |-> op, arg |-> arg, ret |-> ret, out |-> out, grows |-> grows,
     cur |-> cur, sizeBefore |-> sizeBefore, sizeAfter |-> sizeAfter]

ZeroMem == [a \in 0 .. MemSize - 1 |-> 0]

\* ScratchSpace::default() and no Shims: the bridge is not under test.
BridgeIdle ==
    /\ slen = 0
    /\ ofs = 0
    /\ buf = <<>>
    /\ shims = <<>>
    /\ stubs = <<>>
    /\ blast = <<>>
    /\ dll = <<>>

\* HeapInfo::new / ArenaInfo::new over zeroed guest memory.
Init ==
    /\ BridgeIdle
    /\ kind \in {"heap", "arena"}
    /\ mem = IF kind = "heap" THEN PutNode(ZeroMem, HeapAddr, HeapSize, 0)
             ELSE ZeroMem
    /\ free = IF kind = "heap" THEN HeapAddr ELSE 0
    /\ next = 0
    /\ mapEnd = IF kind = "heap" THEN HeapAddr + HeapSize ELSE 0
    /\ status = "ok"
    /\ hist = <<>>
    /\ sized = <<>>
    /\ live = {}

Running(k) == kind = k /\ status = "ok" /\ Len(hist) < MaxOps

HeapAllocCall(size, policy) ==
    /\ Running("heap")
    /\ \E r \in {HeapAlloc(mem, free, mapEnd, size, policy)} :
           /\ mem' = r.mem
           /\ free' = r.free
           /\ mapEnd' = r.mapEnd
           /\ status' = r.out
           /\ hist' = Append(hist, Call("alloc", size, r.ret, r.out, r.grows,
                                        r.cur, r.sizeBefore, r.sizeAfter))
           /\ live' = IF r.out = "ok" THEN live \cup {<<r.ret, size>>} ELSE live
    /\ sized' = <<>>
    /\ UNCHANGED <<kind, bridgeVars, next>>

HeapFreeCall(a) ==
    /\ Running("heap")
    /\ \E r \in {HeapFree(mem, free, a[1])} :
           /\ mem' = r.mem
           /\ free' = r.free
           /\ status' = r.out
           /\ hist' = Append(hist, Call("free", a[1], 0, r.out, NoGrow, 0, 0, 0))
           /\ live' = IF r.out = "ok" THEN live \ {a} ELSE live
    /\ sized' = <<>>
    /\ UNCHANGED <<kind, bridgeVars, next, mapEnd>>

HeapSizeCall(a) ==
    /\ Running("heap") /\ sized = <<>>
    /\ \E r \in {HeapSizeOf(mem, a[1])} :
           /\ status' = r.out
           /\ sized' = <<Call("size", a[1], r.ret, r.out, NoGrow, 0, 0, 0)>>
    /\ UNCHANGED <<kind, bridgeVars, mem, free, next, mapEnd, hist, live>>

ArenaAllocCall(size) ==
    /\ Running("arena")
    /\ \E r \in {ArenaAlloc(mem, next, size)} :
           /\ mem' = r.mem
           /\ next' = r.next
           /\ status' = r.out
           /\ hist' = Append(hist, Call("alloc", size, r.ret, r.out, NoGrow,
                                        0, 0, 0))
           /\ live' = IF r.out = "ok" /\ r.ret # 0
                      THEN live \cup {<<r.ret, size>>} ELSE live
    /\ sized' = <<>>
    /\ UNCHANGED <<kind, bridgeVars, free, mapEnd>>

ArenaSizeCall(a) ==
    /\ Running("arena") /\ sized = <<>>
    /\ \E r \in {ArenaSizeOf(mem, a[1])} :
           /\ status' = r.out
           /\ sized' = <<Call("size", a[1], r.ret, r.out, NoGrow, 0, 0, 0)>>
    /\ UNCHANGED <<kind, bridgeVars, mem, free, next, mapEnd, hist, live>>

\* fn free(&mut self, _addr: u32) { unimplemented!("can't free from arena") }
ArenaFreeCall(a) ==
    /\ Running("arena")
    /\ status' = "unimplemented"
    /\ hist' = Append(hist, Call("free", a[1], 0, "unimplemented", NoGrow,
                                 0, 0, 0))
    /\ sized' = <<>>
    /\ UNCHANGED <<kind, bridgeVars, mem, free, next, mapEnd, live>>

Next ==
    \/ \E size \in Sizes, policy \in GrowPolicies : HeapAllocCall(size, policy)
    \/ \E a \in live : HeapFreeCall(a)
    \/ \E a \in live : HeapSizeCall(a)
    \/ \E size \in Sizes : ArenaAllocCall(size)
    \/ \E a \in live : ArenaSizeCall(a)
    \/ \E a \in live : ArenaFreeCall(a)

Spec == Init /\ [][Next]_vars

\* ------------------------------------------- ScratchSpace (shims_raw.rs)
\* Guest address of the scratch region (ScratchSpace.ptr).
ScratchPtr == 256
\* Capacity of the region handed to Shims::new.
ShimsSize == 80
\* Host memory behind the region that the model keeps track of.
Behind == 8
\* Capacities of a bare ScratchSpace and the byte strings written to it.
ScratchLens == {6, 11}
Chunks == {<<>>, <<17>>, <<34, 35>>, <<68, 69, 70, 71, 72>>}

HostMem(len) == [i \in 0 .. len + Behind - 1 |-> 0]

\* u32::to_le_bytes, u16::to_le_bytes
LE32(v) == <<Byte(v, 0), Byte(v, 1), Byte(v, 2), Byte(v, 3)>>
LE16(v) == <<Byte(v, 0), Byte(v, 1)>>

\* self.ofs + (align - 1) & !(align - 1) read as ofs + ((align - 1) & !(align - 1))
AlignUp8_low(o) == o - (o % 8)

\* self.ofs + (align - 1) & !(align - 1), align = 8: + binds tighter than &
AlignUp8(o) == (o + 7) - ((o + 7) % 8)

\* unsafe fn write(&mut self, buf: &[u8]) -> *mut u8
\* The copy comes first and is unchecked: bytes past the capacity land in
\* the host memory behind the region, and only then does the call panic.
ScratchWrite(b, o, len, bytes) ==
    LET n == Len(bytes)
    IN  IF o + n > len + Behind
        THEN [out |-> "fault", buf |-> b, ofs |-> o, ret |-> 0]
        ELSE [out |-> IF o + n > len THEN "overflow" ELSE "ok",
              buf |-> [i \in DOMAIN b |->
                          IF i >= o /\ i < o + n THEN bytes[i - o + 1] ELSE b[i]],
              ofs |-> o + n,
              ret |-> ScratchPtr + o]

\* fn realign(&mut self)
ScratchRealign(o, len) ==
    [out |-> IF AlignUp8(o) > len THEN "overflow" ELSE "ok", ofs |-> AlignUp8(o)]

\* A write inside a sequence of writes: skipped once an earlier one panicked.
Emit(s, len, bytes) ==
    IF s.out # "ok" THEN s ELSE ScratchWrite(s.buf, s.ofs, len, bytes)

\* A realign inside a sequence of writes.
Realigned(s, len) ==
    IF s.out # "ok" THEN s
    ELSE [s EXCEPT !.out = ScratchRealign(s.ofs, len).out,
                   !.ofs = ScratchRealign(s.ofs, len).ofs]

\* What blast records of one operation.
Op(op, arg, ret, out, ofsBefore) ==
    [op |-> op, arg |-> arg, ret |-> ret, out |-> out, ofsBefore |-> ofsBefore]

AllocIdle ==
    /\ mem = ZeroMem
    /\ free = 0
    /\ next = 0
    /\ mapEnd = 0
    /\ hist = <<>>
    /\ sized = <<>>
    /\ live = {}

\* ScratchSpace::new(ptr, len)
InitScratch ==
    /\ kind = "scratch"
    /\ slen \in ScratchLens
    /\ ofs = 0
    /\ buf = HostMem(slen)
    /\ shims = <<>>
    /\ stubs = <<>>
    /\ blast = <<>>
    /\ dll = <<>>

ScratchWriteCall(bytes) ==
    /\ kind = "scratch" /\ status = "ok"
    /\ \E r \in {ScratchWrite(buf, ofs, slen, bytes)} :
           /\ buf' = r.buf
           /\ ofs' = r.ofs
           /\ status' = r.out
           /\ blast' = Op("write", bytes, r.ret, r.out, ofs)
    /\ UNCHANGED <<kind, dll, allocVars, slen, shims, stubs>>

ScratchRealignCall ==
    /\ kind = "scratch" /\ status = "ok"
    /\ \E r \in {ScratchRealign(ofs, slen)} :
           /\ ofs' = r.ofs
           /\ status' = r.out
           /\ blast' = Op("realign", <<>>, 0, r.out, ofs)
    /\ UNCHANGED <<kind, dll, allocVars, slen, buf, shims, stubs>>

\* ------------------------------------------------------------------ Shims
\* Native function addresses and the Machine pointer: u64 values, kept as
\* their eight little-endian bytes.
Targets == {<<16, 32, 48, 64, 80, 96, 112, 128>>, <<1, 0, 0, 0, 0, 0, 0, 0>>}
Machines == {<<9, 8, 7, 6, 5, 4, 3, 2>>}
\* Shim.stack_consumed of the shims that get registered.
StackConsumed == {4, 300, 65535, 65540}
\* Names handed to add_todo.
Names == {"a", "b"}
\* Stack pointers handed to set_machine_hack.
Esps == {120}

\* (target >> 32) as u32, target as u32
Hi32(t) == SubSeq(t, 5, 8)
Lo32(t) == SubSeq(t, 1, 4)

\* shim.stack_consumed as u16
AsU16(v) == v % 65536

\* call64: push rdi; push rsi; movabs rdi, imm64
Call64Head == <<87, 86>>
Call64MovRdi == <<72, 191>>
\* lea rsi, [rsp+0x20]; call [rsp+0x18]; pop rsi; pop rdi; retf 8
Call64Tail == <<72, 141, 116, 36, 32, 255, 84, 36, 24, 94, 95, 202, 8, 0>>
\* selector of the 64-bit code segment in the m16:32 of call64
Code64Selector == 43
\* tramp32: mov esp, edi; call esi; retf
Tramp32 == <<137, 252, 255, 214, 203>>
\* crash: int3; mov eax, 1; jmp [eax]
Crash == <<204, 184, 1, 0, 0, 0, 255, 32>>

\* pub fn new(ldt: &mut LDT, addr: *mut u8, size: u32) -> Self
ShimsNew(len) ==
    LET s0 == [out |-> "ok", buf |-> HostMem(len), ofs |-> 0, ret |-> 0]
        call64 == Emit(s0, len, Call64Head)
        machine_ptr == Emit(Emit(call64, len, Call64MovRdi), len,
                            <<0, 0, 0, 0, 0, 0, 0, 0>>)
        call64_addr == Emit(Realigned(Emit(machine_ptr, len, Call64Tail), len),
                            len, LE32(call64.ret))
        tramp32_addr == Emit(Realigned(Emit(call64_addr, len,
                                            LE32(Code64Selector)), len),
                             len, Tramp32)
        end == Realigned(tramp32_addr, len)
    IN  [out |-> end.out, buf |-> end.buf, ofs |-> end.ofs,
         machine_ptr |-> machine_ptr.ret,
         call64_addr |-> call64_addr.ret,
         tramp32_addr |-> tramp32_addr.ret]

\* pub unsafe fn set_machine_hack(&mut self, machine: *const Machine, esp: u32)
SetMachineHack(b, machine_ptr, machine) ==
    [i \in DOMAIN b |->
        IF i >= machine_ptr - ScratchPtr /\ i < machine_ptr - ScratchPtr + 8
        THEN machine[i - (machine_ptr - ScratchPtr) + 1] ELSE b[i]]

\* A stub that pushes the low half of the target first.
ShimsAdd_lowfirst(b, o, len, call64_addr, target, stack_consumed) ==
    LET s0 == [out |-> "ok", buf |-> b, ofs |-> o, ret |-> 0]
        tramp_addr == Emit(s0, len, <<104>>)
        pushes == Emit(Emit(Emit(tramp_addr, len, Lo32(target)), len, <<104>>),
                       len, Hi32(target))
        lcall == Emit(Emit(pushes, len, <<255, 29>>), len, LE32(call64_addr))
        retl == Emit(lcall, len, <<194>>)
        end == IF retl.out = "ok" /\ AsU16(stack_consumed) < 4
               THEN [retl EXCEPT !.out = "arith"]
               ELSE Realigned(Emit(retl, len,
                                   LE16(AsU16(stack_consumed) - 4)), len)
    IN  [out |-> end.out, buf |-> end.buf, ofs |-> end.ofs,
         ret |-> IF end.out = "ok" THEN tramp_addr.ret ELSE 0]

\* pub fn add(&mut self, shim: Shim) -> u32
\* pushl hi; pushl lo; lcalll *call64_addr; retl imm16.  The u16
\* subtraction panics on underflow (overflow checks on).
ShimsAdd(b, o, len, call64_addr, target, stack_consumed) ==
    LET s0 == [out |-> "ok", buf |-> b, ofs |-> o, ret |-> 0]
        tramp_addr == Emit(s0, len, <<104>>)
        pushes == Emit(Emit(Emit(tramp_addr, len, Hi32(target)), len, <<104>>),
                       len, Lo32(target))
        lcall == Emit(Emit(pushes, len, <<255, 29>>), len, LE32(call64_addr))
        retl == Emit(lcall, len, <<194>>)
        end == IF retl.out = "ok" /\ AsU16(stack_consumed) < 4
               THEN [retl EXCEPT !.out = "arith"]
               ELSE Realigned(Emit(retl, len,
                                   LE16(AsU16(stack_consumed) - 4)), len)
    IN  [out |-> end.out, buf |-> end.buf, ofs |-> end.ofs,
         ret |-> IF end.out = "ok" THEN tramp_addr.ret ELSE 0]

\* An add_todo that writes its stub at the start of the region.
ShimsAddTodo_rewind(b, o, len, name) == ScratchWrite(b, 0, len, Crash)

\* A crash stub that starts with the mov and traps last.
ShimsAddTodo_late(b, o, len, name) ==
    ScratchWrite(b, o, len, <<184, 1, 0, 0, 0, 204, 255, 32>>)

\* pub fn add_todo(&mut self, _name: String) -> u32
ShimsAddTodo(b, o, len, name) == ScratchWrite(b, o, len, Crash)

\* ------------------------------------------------- the processor (x86-64)
\* Only the instructions the emitted code is made of are decoded; anything
\* else stops the run as a fault.  ip and sp are guest addresses, rdi and
\* rsi hold eight little-endian bytes, cs is the code segment selector.

\* Selector of the 32-bit code segment (ldt.add_entry in Shims::new).
Code32Selector == 15
\* Where the guest caller of a stub continues, and where the host continues
\* after the lcall of call_x86.
RetAddr == 1024
HostRet == 1032
\* Address of the guest function call_x86 is asked to call.
GuestFunc == 1040
\* The host's stack pointer and the guest's edi and esi at the time of a call.
HostRsp == <<240, 239, 238, 237, 236, 127, 0, 0>>
GuestRdi == <<21, 22, 23, 24, 0, 0, 0, 0>>
GuestRsi == <<25, 26, 27, 28, 0, 0, 0, 0>>
\* Steps after which a run counts as not returning.
MaxSteps == 24

LE64(v) == LE32(v) \o <<0, 0, 0, 0>>
Val16(b) == b[1] + 256 * b[2]
\* Code and stack addresses are below 2^31 here: the top bit is dropped.
Val32(b) == b[1] + 256 * b[2] + 65536 * b[3] + 16777216 * (b[4] % 128)

GetBytes(m, a, n) == [k \in 1 .. n |-> m[a + k - 1]]
PutBytes(m, a, bytes) ==
    [x \in DOMAIN m |->
        IF x >= a /\ x < a + Len(bytes) THEN bytes[x - a + 1] ELSE m[x]]

\* The byte of emitted code at guest address a, -1 outside the host memory.
CodeAt(b, a) == IF (a - ScratchPtr) \in DOMAIN b THEN b[a - ScratchPtr] ELSE -1
Fetch(b, a, n) == [k \in 1 .. n |-> CodeAt(b, a + k - 1)]

Cpu(ip, sp, cs, rdi, rsi, m) ==
    [ip |-> ip, sp |-> sp, cs |-> cs, rdi |-> rdi, rsi |-> rsi, mem |-> m,
     natives |-> <<>>, guests |-> <<>>, out |-> "run", steps |-> 0]

Push(c, bytes) ==
    IF c.out # "run" THEN c
    ELSE IF ~InMem(c.sp - Len(bytes), Len(bytes)) THEN [c EXCEPT !.out = "fault"]
    ELSE [c EXCEPT !.sp = c.sp - Len(bytes),
                   !.mem = PutBytes(c.mem, c.sp - Len(bytes), bytes)]

\* Near and far returns: pop eip (and cs), then drop imm more bytes.
RetNear(c, imm) ==
    IF ~InMem(c.sp, 4) THEN [c EXCEPT !.out = "fault"]
    ELSE [c EXCEPT !.ip = Val32(GetBytes(c.mem, c.sp, 4)), !.sp = c.sp + 4 + imm]

RetFar(c, imm) ==
    IF ~InMem(c.sp, 8) THEN [c EXCEPT !.out = "fault"]
    ELSE [c EXCEPT !.ip = Val32(GetBytes(c.mem, c.sp, 4)),
                   !.cs = Val16(GetBytes(c.mem, c.sp + 4, 2)),
                   !.sp = c.sp + 8 + imm]

Jump(c, ip) == IF c.out # "run" THEN c ELSE [c EXCEPT !.ip = ip]

\* One instruction in 32-bit mode.  g is the guest function of call_x86:
\* a callee-pops routine of g.nargs arguments.
Step32(c, b, g) ==
    LET op == CodeAt(b, c.ip)
        op2 == CodeAt(b, c.ip + 1)
    IN  IF c.ip = RetAddr THEN [c EXCEPT !.out = "returned"]
        ELSE IF c.ip = g.addr
        THEN IF ~InMem(c.sp, 4 + 4 * g.nargs) THEN [c EXCEPT !.out = "fault"]
             ELSE RetNear([c EXCEPT !.guests = Append(@,
                              [sp |-> c.sp,
                               args |-> [k \in 1 .. g.nargs |->
                                            Get32(c.mem, c.sp + 4 * k)]])],
                          4 * g.nargs)
        \* 68 id: push imm32
        ELSE IF op = 104
        THEN Jump(Push(c, Fetch(b, c.ip + 1, 4)), c.ip + 5)
        \* ff 1d m: lcall m16:32 through the descriptor at absolute address m
        ELSE IF op = 255 /\ op2 = 29
        THEN LET m == Val32(Fetch(b, c.ip + 2, 4))
                 far == Push(Push(c, LE32(c.cs)), LE32(c.ip + 6))
             IN  IF CodeAt(b, m) = -1 \/ CodeAt(b, m + 5) = -1
                 THEN [c EXCEPT !.out = "fault"]
                 ELSE IF far.out # "run" THEN far
                 ELSE [far EXCEPT !.ip = Val32(Fetch(b, m, 4)),
                                  !.cs = Val16(Fetch(b, m + 4, 2))]
        \* c2 iw: ret imm16
        ELSE IF op = 194
        THEN RetNear(c, Val16(Fetch(b, c.ip + 1, 2)))
        \* cc: int3
        ELSE IF op = 204
        THEN [c EXCEPT !.out = "trap"]
        \* b8 id: mov eax, imm32 (eax is not tracked)
        ELSE IF op = 184
        THEN Jump(c, c.ip + 5)
        \* 89 fc: mov esp, edi
        ELSE IF op = 137 /\ op2 = 252
        THEN [c EXCEPT !.sp = Val32(Lo32(c.rdi)), !.ip = c.ip + 2]
        \* ff d6: call esi
        ELSE IF op = 255 /\ op2 = 214
        THEN Jump(Push(c, LE32(c.ip + 2)), Val32(Lo32(c.rsi)))
        \* cb: retf
        ELSE IF op = 203
        THEN RetFar(c, 0)
        ELSE [c EXCEPT !.out = "fault"]

\* One instruction in 64-bit mode.
Step64(c, b) ==
    LET op == CodeAt(b, c.ip)
        op2 == CodeAt(b, c.ip + 1)
    IN  IF c.ip = HostRet THEN [c EXCEPT !.out = "host"]
        \* 57: push rdi; 56: push rsi
        ELSE IF op = 87 THEN Jump(Push(c, c.rdi), c.ip + 1)
        ELSE IF op = 86 THEN Jump(Push(c, c.rsi), c.ip + 1)
        \* 48 bf iq: movabs rdi, imm64
        ELSE IF op = 72 /\ op2 = 191
        THEN [c EXCEPT !.rdi = Fetch(b, c.ip + 2, 8), !.ip = c.ip + 10]
        \* 48 8d 74 24 ib: lea rsi, [rsp+disp8]
        ELSE IF Fetch(b, c.ip, 4) = <<72, 141, 116, 36>>
        THEN [c EXCEPT !.rsi = LE64(c.sp + CodeAt(b, c.ip + 4)), !.ip = c.ip + 5]
        \* ff 54 24 ib: call [rsp+disp8]; the native function runs and returns
        ELSE IF Fetch(b, c.ip, 3) = <<255, 84, 36>>
        THEN LET at == c.sp + CodeAt(b, c.ip + 3)
                 called == Push(c, LE64(c.ip + 4))
             IN  IF ~InMem(at, 8) THEN [c EXCEPT !.out = "fault"]
                 ELSE IF called.out # "run" THEN called
                 ELSE [c EXCEPT !.mem = called.mem,
                                !.natives = Append(@,
                                    [target |-> GetBytes(c.mem, at, 8),
                                     machine |-> c.rdi, stack |-> c.rsi]),
                                !.ip = c.ip + 4]
        \* 5e: pop rsi; 5f: pop rdi
        ELSE IF op = 94 \/ op = 95
        THEN IF ~InMem(c.sp, 8) THEN [c EXCEPT !.out = "fault"]
             ELSE IF op = 94
             THEN [c EXCEPT !.rsi = GetBytes(c.mem, c.sp, 8),
                            !.sp = c.sp + 8, !.ip = c.ip + 1]
             ELSE [c EXCEPT !.rdi = GetBytes(c.mem, c.sp, 8),
                            !.sp = c.sp + 8, !.ip = c.ip + 1]
        \* ca iw: retf imm16 (32-bit operand size)
        ELSE IF op = 202
        THEN RetFar(c, Val16(Fetch(b, c.ip + 1, 2)))
        ELSE [c EXCEPT !.out = "fault"]

\* Runs until the code returns to its caller, traps or faults.
RECURSIVE Run(_, _, _)
Run(c, b, g) ==
    IF c.out # "run" THEN c
    ELSE IF c.steps >= MaxSteps THEN [c EXCEPT !.out = "hang"]
    ELSE IF c.cs = Code64Selector
    THEN Run([Step64(c, b) EXCEPT !.steps = c.steps + 1], b, g)
    ELSE Run([Step32(c, b, g) EXCEPT !.steps = c.steps + 1], b, g)

NoGuest == [addr |-> -2, nargs |-> 0]

\* ------------------------------------------------------- calls of a stub
\* Guest stack pointers at the time guest code calls a stub.
GuestSps == {100}

\* Guest code executes `call stub` with the stack pointer at sp0.
GuestCall(m, b, stub, sp0) ==
    Run(Jump(Push(Cpu(RetAddr, sp0, Code32Selector, GuestRdi, GuestRsi, m),
                  LE32(RetAddr)), stub),
        b, NoGuest)

\* ------------------------------------------------------- call_x86, call_sync
\* Argument lists handed to call_x86.
ArgLists == {<<>>, <<7>>, <<7, 9>>}
\* The futures call_sync is handed: the one call_x86 returns, one that is
\* not ready, and one that is not ready and registers its waker.
Futures == {"UnimplFuture", "Pending", "PendingWaker"}

\* for &arg in args.iter().rev() { esp -= 4; mem.put::<u32>(esp, arg); }
RECURSIVE PushArgs(_, _, _)
PushArgs(f, args, k) ==
    IF k = 0 THEN f
    ELSE PushArgs([mem |-> Put32(f.mem, f.esp - 4, args[k]),
                   esp |-> f.esp - 4,
                   at |-> [f.at EXCEPT ![k] = f.esp - 4]],
                  args, k - 1)

\* A call_x86 that pushes the arguments first and reserves the slots below.
CallX86_argsfirst(m, b, sh, func, args) ==
    LET n == Len(args)
        orig_esp == sh.esp
    IN  IF orig_esp < 16 + 4 * n
        THEN [out |-> "arith", mem |-> m]
        ELSE IF ~InMem(orig_esp - 16 - 4 * n, 16 + 4 * n)
        THEN [out |-> "fault", mem |-> m]
        ELSE LET f == PushArgs([mem |-> m, esp |-> orig_esp,
                                at |-> [k \in 1 .. n |-> 0]], args, n)
                 lcall_esp == f.esp - 16
                 entered == Jump(Push(Push(
                                Cpu(HostRet, lcall_esp, Code64Selector,
                                    LE64(f.esp), LE64(func),
                                    PutBytes(f.mem, lcall_esp, HostRsp)),
                                LE32(Code64Selector)), LE32(HostRet)),
                                sh.tramp32_addr)
                 done == Run([entered EXCEPT !.cs = Code32Selector], b,
                             [addr |-> func, nargs |-> n])
             IN  [out |-> IF done.out = "host" THEN "ok" ELSE done.out,
                  mem |-> done.mem,
                  orig_esp |-> orig_esp,
                  lcall_esp |-> lcall_esp,
                  desc |-> entered.sp,
                  at |-> f.at,
                  guests |-> done.guests,
                  rsp |-> IF InMem(done.sp, 8)
                          THEN GetBytes(done.mem, done.sp, 8) ELSE <<>>]

\* pub fn call_x86(machine: &mut Machine, func: u32, args: Vec<u32>)
\* The u32 subtractions panic on underflow (overflow checks on).  The asm
\* stores rsp at lcall_esp, makes lcall_esp the stack pointer and far-calls
\* tramp32 with edi = shims.esp and esi = func; popq %rsp ends it.
CallX86(m, b, sh, func, args) ==
    LET n == Len(args)
        orig_esp == sh.esp
        lcall_esp == orig_esp - 8
    IN  IF orig_esp < 16 + 4 * n
        THEN [out |-> "arith", mem |-> m]
        ELSE IF ~InMem(orig_esp - 16 - 4 * n, 16 + 4 * n)
        THEN [out |-> "fault", mem |-> m]
        ELSE LET f == PushArgs([mem |-> m, esp |-> orig_esp - 16,
                                at |-> [k \in 1 .. n |-> 0]], args, n)
                 entered == Jump(Push(Push(
                                Cpu(HostRet, lcall_esp, Code64Selector,
                                    LE64(f.esp), LE64(func),
                                    PutBytes(f.mem, lcall_esp, HostRsp)),
                                LE32(Code64Selector)), LE32(HostRet)),
                                sh.tramp32_addr)
                 done == Run([entered EXCEPT !.cs = Code32Selector], b,
                             [addr |-> func, nargs |-> n])
             IN  [out |-> IF done.out = "host" THEN "ok" ELSE done.out,
                  mem |-> done.mem,
                  orig_esp |-> orig_esp,
                  lcall_esp |-> lcall_esp,
                  desc |-> entered.sp,
                  at |-> f.at,
                  guests |-> done.guests,
                  rsp |-> IF InMem(done.sp, 8)
                          THEN GetBytes(done.mem, done.sp, 8) ELSE <<>>]

\* A poll of UnimplFuture that is never ready.
Poll_never(f) == "Pending"

\* impl Future for UnimplFuture: fn poll(...) -> Poll<()>
Poll(f) == IF f = "UnimplFuture" THEN "Ready" ELSE "Pending"

\* pub fn call_sync<T>(future: Pin<&mut impl Future<Output = T>>) -> T
\* The Context is a reference made from a null pointer: a future that uses
\* it dereferences null, which the build may turn into a fault or into the
\* unreachable!() that follows.
CallSync(f) ==
    IF Poll(f) = "Ready" THEN {"ok"}
    ELSE IF f = "PendingWaker" THEN {"fault", "unreachable"}
    ELSE {"unreachable"}

\* ------------------------------------------------- DLL::resolve (dll.rs)
\* An Option is a sequence of no or one element.
None == <<>>
Some(x) == <<x>>

\* ImportSymbol::Name(name), ImportSymbol::Ordinal(ord)
Name(n) == <<"Name", n>>
Ordinal(o) == <<"Ordinal", o>>
ImportSymbols ==
    {Name("known"), Name("plain"), Name("absent"), Name("own"),
     Ordinal(1), Ordinal(2)}

\* BuiltinDLL.exports of the native DLL: one export with an ordinal, one
\* without.
Exports ==
    <<[ordinal |-> Some(1),
       shim |-> [name |-> "known", func |-> <<16, 32, 48, 64, 80, 96, 112, 128>>,
                 stack_consumed |-> 12]],
      [ordinal |-> None,
       shim |-> [name |-> "plain", func |-> <<1, 0, 0, 0, 0, 0, 0, 0>>,
                 stack_consumed |-> 4]]>>
\* Address of the one function the DLL loaded from a file exports.
OwnAddr == 2048

\* LoadLibraryA of a builtin DLL: empty tables; of a file: the loader's
\* tables and no builtin.
BuiltinDll ==
    [name |-> "native.dll", names |-> <<>>, ordinals |-> <<>>,
     builtin |-> Some(Exports)]
FileDll ==
    [name |-> "file.dll", names |-> [n \in {"own"} |-> OwnAddr],
     ordinals |-> [o \in {1} |-> OwnAddr], builtin |-> None]

\* HashMap::get(..).copied(), HashMap::insert
MapGet(map, k) == IF k \in DOMAIN map THEN Some(map[k]) ELSE None
\* An insert that leaves the table as it was.
MapInsert_drop(map, k, v) == map

MapInsert(map, k, v) ==
    [x \in DOMAIN map \cup {k} |-> IF x = k THEN v ELSE map[x]]

\* fn resolve_from_pe(&self, sym: &ImportSymbol) -> Option<u32>
ResolveFromPe(d, sym) ==
    IF sym[1] = "Name" THEN MapGet(d.names, sym[2])
    ELSE MapGet(d.ordinals, sym[2])

\* builtin.exports.iter().find(..): the first export that matches
FindExport(exports, sym) ==
    LET hits == {i \in 1 .. Len(exports) :
                    IF sym[1] = "Name" THEN exports[i].shim.name = sym[2]
                    ELSE exports[i].ordinal = Some(sym[2])}
    IN  IF hits = {} THEN None
        ELSE Some(exports[CHOOSE i \in hits : \A j \in hits : i <= j])

\* The callback GetProcAddress hands to resolve, machine.emu.register:
\* Shims::add for Ok(shim), Shims::add_todo for Err(name).
Register(b, o, len, sh, arg) ==
    IF arg.ok
    THEN ShimsAdd(b, o, len, sh.call64_addr, arg.shim.func,
                  arg.shim.stack_consumed)
    ELSE ShimsAddTodo(b, o, len, arg.name)

\* What resolve answers and leaves behind, and the callback calls it made.
Resolved(out, ret, d, b, o, calls) ==
    [out |-> out, ret |-> ret, dll |-> d, buf |-> b, ofs |-> o, calls |-> calls]

\* pub fn resolve_from_builtin(&mut self, sym, register) -> Option<u32>
\* out is "none" where the code returns None.
ResolveFromBuiltin(d, sym, b, o, len, sh) ==
    IF d.builtin = None THEN Resolved("none", 0, d, b, o, <<>>)
    ELSE LET export == FindExport(d.builtin[1], sym)
             arg == IF export # None
                    THEN [ok |-> TRUE, shim |-> export[1].shim]
                    ELSE [ok |-> FALSE, name |-> <<d.name, sym>>]
             reg == Register(b, o, len, sh, arg)
         IN  IF reg.out # "ok"
             THEN Resolved(reg.out, 0, d, reg.buf, reg.ofs, <<arg>>)
             ELSE Resolved("ok", reg.ret,
                           IF sym[1] = "Name"
                           THEN [d EXCEPT !.names =
                                    MapInsert(d.names, sym[2], reg.ret)]
                           ELSE [d EXCEPT !.ordinals =
                                    MapInsert(d.ordinals, sym[2], reg.ret)],
                           reg.buf, reg.ofs, <<arg>>)

\* pub fn resolve(&mut self, sym: ImportSymbol, register) -> u32
Resolve(d, sym, b, o, len, sh) ==
    IF ResolveFromPe(d, sym) # None
    THEN Resolved("ok", ResolveFromPe(d, sym)[1], d, b, o, <<>>)
    ELSE LET r == ResolveFromBuiltin(d, sym, b, o, len, sh)
         IN  IF r.out = "none" THEN Resolved("ok", 0, d, b, o, <<>>) ELSE r

\* ------------------------------------------------------ calls of the bridge
\* Shims::new(ldt, ScratchPtr, ShimsSize); esp: 0
ShimsBuilt ==
    /\ \E r \in {ShimsNew(ShimsSize)} :
           /\ r.out = "ok"
           /\ slen = ShimsSize
           /\ ofs = r.ofs
           /\ buf = r.buf
           /\ shims = [call64_addr |-> r.call64_addr,
                       tramp32_addr |-> r.tramp32_addr,
                       machine_ptr |-> r.machine_ptr,
                       esp |-> 0]
    /\ stubs = <<>>
    /\ blast = <<>>

InitShims ==
    /\ kind = "shims"
    /\ ShimsBuilt
    /\ dll = <<>>

\* A DLL as LoadLibraryA leaves it, with the bridge built.
InitDll ==
    /\ kind = "dll"
    /\ ShimsBuilt
    /\ dll \in {BuiltinDll, FileDll}

InitBridge ==
    /\ status = "ok"
    /\ AllocIdle
    /\ InitScratch \/ InitShims \/ InitDll

ShimsRunning == kind = "shims" /\ status = "ok"

SetMachineHackCall(machine, esp) ==
    /\ ShimsRunning
    /\ buf' = SetMachineHack(buf, shims.machine_ptr, machine)
    /\ shims' = [shims EXCEPT !.esp = esp]
    /\ blast' = Op("set_machine_hack", <<machine, esp>>, 0, "ok", ofs)
    /\ UNCHANGED <<kind, status, dll, allocVars, slen, ofs, stubs>>

ShimsAddCall(target, stack_consumed) ==
    /\ ShimsRunning
    /\ \E r \in {ShimsAdd(buf, ofs, slen, shims.call64_addr, target,
                          stack_consumed)} :
           /\ buf' = r.buf
           /\ ofs' = r.ofs
           /\ status' = r.out
           /\ blast' = Op("add", <<target, stack_consumed>>, r.ret, r.out, ofs)
           /\ stubs' = IF r.out = "ok"
                       THEN Append(stubs, [addr |-> r.ret, shim |-> TRUE,
                                           target |-> target,
                                           stack_consumed |-> stack_consumed])
                       ELSE stubs
    /\ UNCHANGED <<kind, dll, allocVars, slen, shims>>

ShimsAddTodoCall(name) ==
    /\ ShimsRunning
    /\ \E r \in {ShimsAddTodo(buf, ofs, slen, name)} :
           /\ buf' = r.buf
           /\ ofs' = r.ofs
           /\ status' = r.out
           /\ blast' = Op("add_todo", name, r.ret, r.out, ofs)
           /\ stubs' = IF r.out = "ok"
                       THEN Append(stubs, [addr |-> r.ret, shim |-> FALSE,
                                           target |-> <<>>,
                                           stack_consumed |-> 0])
                       ELSE stubs
    /\ UNCHANGED <<kind, dll, allocVars, slen, shims>>

\* The most stubs the region has room for.
StubIds == 1 .. (ShimsSize \div Len(Crash))

\* Guest code calls the i-th registered address.
GuestCallCall(i, sp0) ==
    /\ ShimsRunning
    /\ i \in 1 .. Len(stubs)
    /\ \E c \in {GuestCall(mem, buf, stubs[i].addr, sp0)} :
           /\ mem' = c.mem
           /\ status' = IF c.out = "returned" THEN "ok" ELSE c.out
           /\ blast' = [op |-> "guest_call", arg |-> i, ret |-> c.sp,
                        out |-> c.out, ofsBefore |-> ofs, sp0 |-> sp0,
                        natives |-> c.natives, steps |-> c.steps,
                        rdi |-> c.rdi, rsi |-> c.rsi]
    /\ UNCHANGED <<kind, dll, free, next, mapEnd, hist, sized, live,
                   slen, ofs, buf, shims, stubs>>

CallX86Call(func, args) ==
    /\ ShimsRunning
    /\ \E r \in {CallX86(mem, buf, shims, func, args)} :
           /\ mem' = r.mem
           /\ status' = r.out
           /\ blast' = [r EXCEPT !.mem = <<>>] @@
                       [op |-> "call_x86", arg |-> args,
                        ret |-> "UnimplFuture", ofsBefore |-> ofs]
    /\ UNCHANGED <<kind, dll, free, next, mapEnd, hist, sized, live,
                   slen, ofs, buf, shims, stubs>>

CallSyncCall(f) ==
    /\ ShimsRunning
    /\ \E out \in CallSync(f) :
           /\ status' = out
           /\ blast' = Op("call_sync", f, 0, out, ofs)
    /\ UNCHANGED <<kind, dll, allocVars, slen, ofs, buf, shims, stubs>>

\* GetProcAddress: dll.resolve(sym, |shim| machine.emu.register(shim))
ResolveCall(sym) ==
    /\ kind = "dll" /\ status = "ok"
    /\ \E r \in {Resolve(dll, sym, buf, ofs, slen, shims)} :
           /\ dll' = r.dll
           /\ buf' = r.buf
           /\ ofs' = r.ofs
           /\ status' = r.out
           /\ blast' = [op |-> "resolve", arg |-> sym, ret |-> r.ret,
                        out |-> r.out, ofsBefore |-> ofs, calls |-> r.calls,
                        fromPe |-> ResolveFromPe(dll, sym) # None]
           /\ stubs' = IF r.out = "ok" /\ r.calls # <<>>
                       THEN Append(stubs,
                                [addr |-> r.ret, shim |-> r.calls[1].ok,
                                 target |-> IF r.calls[1].ok
                                            THEN r.calls[1].shim.func ELSE <<>>,
                                 stack_consumed |->
                                     IF r.calls[1].ok
                                     THEN r.calls[1].shim.stack_consumed ELSE 0])
                       ELSE stubs
    /\ UNCHANGED <<kind, allocVars, slen, shims>>

NextBridge ==
    \/ \E bytes \in Chunks : ScratchWriteCall(bytes)
    \/ ScratchRealignCall
    \/ \E machine \in Machines, esp \in Esps : SetMachineHackCall(machine, esp)
    \/ \E target \in Targets, sc \in StackConsumed : ShimsAddCall(target, sc)
    \/ \E name \in Names : ShimsAddTodoCall(name)
    \/ \E i \in StubIds, sp0 \in GuestSps : GuestCallCall(i, sp0)
    \/ \E args \in ArgLists : CallX86Call(GuestFunc, args)
    \/ \E f \in Futures : CallSyncCall(f)
    \/ \E sym \in ImportSymbols : ResolveCall(sym)

SpecBridge == InitBridge /\ [][NextBridge]_vars

\* ---------------------------------------------------------- the free list
\* The addresses of the nodes reached from a by following next, in order,
\* up to the end of the list (next = 0), a node outside guest memory or a
\* node already passed.
RECURSIVE ListFrom(_, _, _)
ListFrom(m, a, acc) ==
    IF a = 0 \/ ~InMem(a, 8) \/ (\E i \in 1 .. Len(acc) : acc[i] = a)
    THEN acc
    ELSE ListFrom(m, NodeNext(m, a), Append(acc, a))

FreeList == ListFrom(mem, free, <<>>)

\* The list from a is in strictly increasing address order and ends at 0.
RECURSIVE Ordered(_, _)
Ordered(m, a) ==
    \/ a = 0
    \/ /\ InMem(a, 8)
       /\ \/ NodeNext(m, a) = 0
          \/ NodeNext(m, a) > a /\ Ordered(m, NodeNext(m, a))

LastIs(op) == Len(hist) > 0 /\ Last(hist).op = op /\ Last(hist).out = "ok"

\* C1: once a free call has returned, no two consecutive free-list nodes
\* a, b are mergeable: a.address + a.size # b.address.
C1_NoMergeableAfterFree ==
    (kind = "heap" /\ LastIs("free")) =>
        \A i \in 1 .. Len(FreeList) - 1 :
            FreeList[i] + NodeSize(mem, FreeList[i]) # FreeList[i + 1]

\* C2: following the free list from its head visits nodes at strictly
\* increasing addresses and ends at next = 0.
C2_ListOrdered ==
    (kind = "heap" /\ status = "ok") => Ordered(mem, free)

\* C3: the 4 bytes before every live heap allocation hold the size that was
\* requested for it.
C3_HeaderKept ==
    (kind = "heap" /\ status = "ok") =>
        \A a \in live : Get32(mem, a[1] - 4) = a[2]

\* The calls of hist that are calls of op.
CallsOf(op) == {i \in 1 .. Len(hist) : hist[i].op = op}
NoFreeYet == CallsOf("free") = {}

\* End of the range the allocator manages: the arena's range is fixed, the
\* heap's range ends where its mapping ends after the grants so far.
RangeBase == IF kind = "heap" THEN HeapAddr ELSE ArenaAddr
RangeEnd == IF kind = "heap" THEN mapEnd ELSE ArenaAddr + ArenaSize

\* C4: after a sequence of alloc calls that all succeeded, the ranges
\* [addr-4, addr+size) of the returned allocations are pairwise disjoint
\* and lie inside the allocator's managed range.
C4_NonOverlap ==
    (status = "ok" /\ NoFreeYet) =>
        /\ \A a \in live : a[1] - 4 >= RangeBase /\ a[1] + a[2] <= RangeEnd
        /\ \A a, b \in live :
              a # b => (a[1] + a[2] <= b[1] - 4 \/ b[1] + b[2] <= a[1] - 4)

\* Three heap allocations made without a free, the last one out of space
\* that the growth provider granted.
C4_Witness ==
    /\ kind = "heap" /\ status = "ok" /\ NoFreeYet
    /\ Cardinality(live) >= 3
    /\ \E i \in CallsOf("alloc") : hist[i].grows # NoGrow

\* C5: when alloc(s) returns a non-zero address a, size(a) called right
\* after it returns s.
C5_HeaderRoundTrip ==
    (Len(hist) > 0 /\ Len(sized) > 0
        /\ Last(hist).op = "alloc" /\ Last(hist).out = "ok"
        /\ Last(hist).ret # 0 /\ sized[1].arg = Last(hist).ret)
    => (sized[1].out = "ok" /\ sized[1].ret = Last(hist).arg)

\* The calls of the coalescing scenario: three allocations of one size on a
\* fresh heap, at adjacent blocks, then free of the second, first and third.
CoalesceScenario ==
    /\ kind = "heap" /\ Len(hist) = 6
    /\ \A i \in 1 .. 3 : hist[i].op = "alloc" /\ hist[i].out = "ok"
                         /\ hist[i].arg = hist[1].arg
    /\ hist[2].ret = hist[1].ret + align32(hist[1].arg + 4)
    /\ hist[3].ret = hist[2].ret + align32(hist[1].arg + 4)
    /\ \A i \in 4 .. 6 : hist[i].op = "free"
    /\ hist[4].arg = hist[2].ret
    /\ hist[5].arg = hist[1].ret
    /\ hist[6].arg = hist[3].ret

\* C6: after allocating three adjacent blocks A, B, C of one size and
\* freeing B, then A, then C, the free list holds exactly one node that
\* reaches into the space of A, B and C, and that node covers all of it.
C6_Coalesced ==
    CoalesceScenario =>
        LET lo == hist[1].ret - 4
            hi == hist[3].ret - 4 + align32(hist[1].arg + 4)
            touching == {i \in 1 .. Len(FreeList) :
                            /\ FreeList[i] < hi
                            /\ FreeList[i] + NodeSize(mem, FreeList[i]) > lo}
        IN  /\ status = "ok"
            /\ Cardinality(touching) = 1
            /\ \A i \in touching :
                  /\ FreeList[i] <= lo
                  /\ FreeList[i] + NodeSize(mem, FreeList[i]) >= hi

\* A call has just been made: hist has grown by one entry.
Called(op) == Len(hist') = Len(hist) + 1 /\ Last(hist').op = op

\* The free-list nodes, in list order, that are large enough for a padded
\* request of p bytes.
FitsAt(p) == {i \in 1 .. Len(FreeList) : NodeSize(mem, FreeList[i]) >= p}
Min(S) == CHOOSE x \in S : \A y \in S : x <= y

\* C7: alloc(s) allocates from the first node in free-list order whose size
\* is at least align4(s+4) and returns that node's address + 4.
C7_FirstFit ==
    [][(kind = "heap" /\ Called("alloc")
            /\ FitsAt(align32(Last(hist').arg + 4)) # {})
        => LET first == FreeList[Min(FitsAt(align32(Last(hist').arg + 4)))]
           IN  /\ Last(hist').out = "ok"
               /\ Last(hist').cur = first
               /\ Last(hist').ret = first + 4]_vars

\* On a heap, alloc(4), alloc(4), free of the first, alloc(4): the last
\* call returned the first allocation's address again.
C7_Witness ==
    /\ kind = "heap" /\ Len(hist) >= 4
    /\ \A i \in {1, 2, 4} : hist[i].op = "alloc" /\ hist[i].arg = 4
                            /\ hist[i].out = "ok"
    /\ hist[3].op = "free" /\ hist[3].arg = hist[1].ret
    /\ hist[2].ret # hist[1].ret
    /\ hist[4].ret = hist[1].ret

\* C8: when the scan of alloc reaches the last free node and that node is
\* smaller than the padded request P, alloc calls the growth provider
\* exactly once, with the heap's base address and P minus the node's size,
\* and adds exactly the granted bytes to the node's size.
C8_GrowthRequest ==
    [][(kind = "heap" /\ Called("alloc") /\ Len(FreeList) > 0
            /\ NodeNext(mem, Last(FreeList)) = 0
            /\ FitsAt(align32(Last(hist').arg + 4)) = {})
        => LET p == align32(Last(hist').arg + 4)
               node == Last(FreeList)
               h == Last(hist')
           IN  /\ Len(h.grows) = 1
               /\ h.grows[1][1] = HeapAddr
               /\ h.grows[1][2] = p - NodeSize(mem, node)
               /\ h.cur = node
               /\ h.sizeAfter = NodeSize(mem, node) + h.grows[1][3]
               /\ h.out = "oom_resize"
                    => NodeSize(mem', node) = NodeSize(mem, node) + h.grows[1][3]]_vars

\* On a 64-byte heap, alloc(4), alloc(4), free of the first, alloc(4), then
\* alloc(100): the last call asked the provider for 56 bytes.
C8_Witness ==
    /\ C7_Witness /\ HeapSize = 64 /\ Len(hist) >= 5
    /\ hist[5].op = "alloc" /\ hist[5].arg = 100 /\ hist[5].out = "ok"
    /\ Len(hist[5].grows) = 1
    /\ hist[5].grows[1] = <<HeapAddr, 56, 56>>

\* C9: a heap alloc that no free node can satisfy asks the provider for
\* growth before it fails fatally, whatever the free list holds, and alloc
\* never returns 0.
C9_FatalOnlyAfterGrowth ==
    kind = "heap" =>
        \A i \in CallsOf("alloc") :
            /\ hist[i].out \in {"oom_empty", "oom_resize"}
                  => Len(hist[i].grows) = 1
            /\ hist[i].out = "ok" => hist[i].ret # 0

\* Bytes the arena has handed out in the first i calls.
RECURSIVE ArenaUsed(_)
ArenaUsed(i) ==
    IF i = 0 THEN 0
    ELSE ArenaUsed(i - 1)
         + (IF hist[i].op = "alloc" /\ hist[i].ret # 0
            THEN align32(hist[i].arg + 4) ELSE 0)

\* Guest memory holding the headers of the allocations in S and nothing else.
RECURSIVE HeadersOnly(_)
HeadersOnly(S) ==
    IF S = {} THEN ZeroMem
    ELSE LET a == CHOOSE x \in S : TRUE
         IN  Put32(HeadersOnly(S \ {a}), a[1] - 4, a[2])

\* C10: an arena alloc whose padded size exceeds the remaining capacity
\* returns 0 and changes neither the cursor nor guest memory: every alloc
\* that fits succeeds at the address the successful allocs before it leave,
\* whatever failed in between.
C10_ArenaSoftFail ==
    kind = "arena" =>
        /\ \A i \in CallsOf("alloc") :
              /\ hist[i].out = "ok"
              /\ hist[i].ret =
                    IF ArenaUsed(i - 1) + align32(hist[i].arg + 4) > ArenaSize
                    THEN 0
                    ELSE ArenaAddr + ArenaUsed(i - 1) + 4
        /\ next = ArenaUsed(Len(hist))
        /\ mem = HeadersOnly(live)

\* An arena alloc failed and a later one succeeded.
C10_Witness ==
    /\ kind = "arena"
    /\ \E i, j \in CallsOf("alloc") :
          i < j /\ hist[i].ret = 0 /\ hist[j].ret # 0

\* C11: every successful arena alloc returns an address above every address
\* returned before it and past the end of every block handed out before it,
\* and no arena free ever succeeds.
C11_ArenaMonotonic ==
    kind = "arena" =>
        /\ \A i, j \in CallsOf("alloc") :
              (i < j /\ hist[i].ret # 0 /\ hist[j].ret # 0)
              => /\ hist[j].ret > hist[i].ret
                 /\ hist[j].ret - 4 >= hist[i].ret + hist[i].arg
        /\ \A i \in CallsOf("free") : hist[i].out # "ok"
        /\ CallsOf("free") # {} => status # "ok"

\* Two arena allocs succeeded and a free was then tried.
C11_Witness ==
    /\ kind = "arena" /\ Len(hist) >= 3
    /\ Last(hist).op = "free"
    /\ \E i, j \in CallsOf("alloc") :
          i < j /\ hist[i].ret # 0 /\ hist[j].ret # 0

\* The bytes [lo, hi) reach into the block of a live allocation.
CoversLive(lo, hi) ==
    \E a \in live : lo < a[1] + a[2] /\ a[1] - 4 < hi

\* No node of the free list reaches into the block of a live allocation.
NodesClearOfLive ==
    \A i \in 1 .. Len(FreeList) :
        ~CoversLive(FreeList[i], FreeList[i] + NodeSize(mem, FreeList[i]))

\* C19: after every heap alloc and free, no free-list node's range
\* [node, node + node.size) overlaps the block of a live allocation, and the
\* bytes a growth grant adds to the last free node never cover a live
\* allocation.
C19_FreeNodesClearOfLive ==
    [][kind = "heap" =>
         /\ status' = "ok" => NodesClearOfLive'
         /\ (Called("alloc") /\ Last(hist').grows # NoGrow)
            => ~CoversLive(Last(hist').cur + Last(hist').sizeBefore,
                           Last(hist').cur + Last(hist').sizeAfter)]_vars

\* C20: Heap::free of a live allocation always returns: its walk stops at
\* the end of the list and never goes on to the node at address 0.
C20_FreeTerminates ==
    kind = "heap" => \A i \in CallsOf("free") : hist[i].out = "ok"

\* --------------------------------------------------------------- the bridge
\* C18: a write of len bytes at cursor c with c + len <= capacity stores the
\* bytes at [c, c + len), returns base + c and leaves the cursor at c + len;
\* no write and no realign ever moves the cursor back.
C18_ScratchWrite ==
    [][/\ ofs' >= ofs
       /\ (kind = "scratch" /\ blast'.op = "write"
           /\ ofs + Len(blast'.arg) <= slen)
          => /\ status' = "ok"
             /\ blast'.ret = ScratchPtr + ofs
             /\ ofs' = ofs + Len(blast'.arg)
             /\ \A k \in 1 .. Len(blast'.arg) :
                   buf'[ofs + k - 1] = blast'.arg[k]]_vars

\* A five-byte write that fits, made behind earlier output.
C18_Witness ==
    /\ kind = "scratch" /\ status = "ok"
    /\ blast # <<>> /\ blast.op = "write"
    /\ Len(blast.arg) = 5 /\ blast.ofsBefore > 0

\* C12: add and add_todo only append: no byte emitted before the call is
\* changed, the address returned is at or above the cursor at the start of
\* the call, and it differs from every address returned before, which all
\* stay registered.
C12_AppendOnly ==
    [][(kind = "shims" /\ blast'.op \in {"add", "add_todo"})
       => /\ \A i \in 0 .. ofs - 1 : buf'[i] = buf[i]
          /\ blast'.out = "ok" => blast'.ret >= ScratchPtr + ofs
          /\ \A j \in 1 .. Len(stubs) :
                /\ stubs'[j] = stubs[j]
                /\ blast'.out = "ok" => stubs[j].addr # blast'.ret]_vars

\* A shim and a crash stub are registered, the later one by the last call.
C12_Witness ==
    /\ kind = "shims" /\ status = "ok"
    /\ blast # <<>> /\ blast.op \in {"add", "add_todo"}
    /\ \E i, j \in 1 .. Len(stubs) : stubs[i].shim /\ ~stubs[j].shim

\* The last operation was a guest call of a registered shim / crash stub.
CalledShim ==
    /\ kind = "shims" /\ blast # <<>> /\ blast.op = "guest_call"
    /\ stubs[blast.arg].shim

CalledTodo ==
    /\ kind = "shims" /\ blast # <<>> /\ blast.op = "guest_call"
    /\ ~stubs[blast.arg].shim

\* C13: a guest call of the address add returned for a shim with
\* 4 <= stack_consumed <= 65535 reaches the native function exactly once,
\* at the 64-bit target put together from the two pushed halves, and returns
\* to the caller with the stack pointer at its value before the call plus
\* stack_consumed - 4 and with edi and esi as they were.
C13_RoundTrip ==
    (/\ CalledShim
     /\ stubs[blast.arg].stack_consumed >= 4
     /\ stubs[blast.arg].stack_consumed <= 65535)
    => /\ blast.out = "returned"
       /\ Len(blast.natives) = 1
       /\ blast.natives[1].target = stubs[blast.arg].target
       /\ blast.ret = blast.sp0 + stubs[blast.arg].stack_consumed - 4
       /\ blast.rdi = GuestRdi
       /\ blast.rsi = GuestRsi

\* A shim that pops 296 bytes of arguments was called and returned.
C13_Witness ==
    /\ CalledShim
    /\ stubs[blast.arg].stack_consumed = 300
    /\ blast.out = "returned"

\* C16: the stub add_todo emits starts with a breakpoint, and a guest call
\* of it traps on its first instruction, reaches no native function and
\* does not return.
C16_Trap ==
    /\ (kind = "shims" /\ blast # <<>> /\ blast.op = "add_todo"
        /\ blast.out = "ok") => CodeAt(buf, blast.ret) = 204
    /\ CalledTodo => /\ blast.out = "trap"
                     /\ blast.steps = 1
                     /\ blast.natives = <<>>
                     /\ status = "trap"

\* A crash stub registered behind another stub was called.
C16_Witness == CalledTodo /\ blast.arg > 1 /\ status = "trap"

\* The last operation was a call_x86 that came back.
CalledX86 ==
    /\ kind = "shims" /\ blast # <<>> /\ blast.op = "call_x86"
    /\ blast.out = "ok"

\* C14 as stated: from high to low address the frame of call_x86 holds the
\* arguments, then the 8 bytes of the return descriptor, then the 8 bytes
\* for the saved outer stack pointer.
C14_FrameAsStated ==
    CalledX86 =>
        /\ blast.lcall_esp + 8 = blast.desc
        /\ \A k \in 1 .. Len(blast.arg) : blast.at[k] >= blast.desc + 8

\* C14, amended: from high to low address the frame holds the 8 bytes for
\* the saved outer stack pointer, then the 8 bytes of the return
\* descriptor, then the arguments, the last one highest and the first one
\* lowest; the guest function finds its arguments in order above its
\* return address, and the outer stack pointer and shims.esp are restored.
\* Every call_x86 made once set_machine_hack has set esp comes back so.
C14_FrameAsBuilt ==
    (/\ kind = "shims" /\ blast # <<>> /\ blast.op = "call_x86"
     /\ blast.out # "arith") =>
        LET n == Len(blast.arg)
            E == blast.orig_esp
        IN  /\ blast.out = "ok"
            /\ blast.lcall_esp = E - 8
            /\ GetBytes(mem, E - 8, 8) = HostRsp
            /\ blast.desc = E - 16
            /\ GetBytes(mem, E - 16, 8) = LE32(HostRet) \o LE32(Code64Selector)
            /\ \A k \in 1 .. n :
                  /\ blast.at[k] = E - 16 - 4 * (n - k + 1)
                  /\ Get32(mem, blast.at[k]) = blast.arg[k]
            /\ blast.guests = <<[sp |-> E - 16 - 4 * n - 4, args |-> blast.arg]>>
            /\ blast.rsp = HostRsp
            /\ shims.esp = E

\* call_x86 came back from a call with two arguments.
C14_Witness == CalledX86 /\ Len(blast.arg) = 2

\* C15: the future call_x86 returns is ready on its first poll, so
\* call_sync of it returns; call_sync of a future that is not ready ends
\* the process.
C15_NeverUnresolved ==
    /\ CalledX86 => Poll(blast.ret) = "Ready"
    /\ (kind = "shims" /\ blast # <<>> /\ blast.op = "call_sync")
       => IF blast.arg = "UnimplFuture"
          THEN blast.out = "ok" /\ status = "ok"
          ELSE status \in {"unreachable", "fault"}

\* call_sync was handed a future that was not ready.
C15_Witness ==
    /\ kind = "shims" /\ blast # <<>> /\ blast.op = "call_sync"
    /\ blast.arg = "Pending" /\ status = "unreachable"

\* The last operation was a resolve that came back.
ResolvedLast ==
    /\ kind = "dll" /\ blast # <<>> /\ blast.op = "resolve"
    /\ blast.out = "ok"

\* The native DLL implements the symbol.
Implemented(sym) ==
    dll.builtin # None /\ FindExport(dll.builtin[1], sym) # None

\* C17: for a symbol the module's own tables do not resolve, resolve calls
\* the registration callback once, with the shim when a native
\* implementation is known and with the name when not, returns the address
\* the callback returned and installs it; the answer is never 0.
C17_ResolveRegisters ==
    (ResolvedLast /\ ~blast.fromPe) =>
        /\ Len(blast.calls) = 1
        /\ blast.calls[1].ok = Implemented(blast.arg)
        /\ blast.ret = Last(stubs).addr
        /\ ResolveFromPe(dll, blast.arg) = Some(blast.ret)
        /\ blast.ret # 0

\* ------------------------------------------------------- space of the heap
\* Sum of the sizes of the free-list nodes from the i-th on.
RECURSIVE FreeBytes(_)
FreeBytes(i) ==
    IF i > Len(FreeList) THEN 0
    ELSE NodeSize(mem, FreeList[i]) + FreeBytes(i + 1)

\* Sum of align32(size + 4) over a set of allocations.
RECURSIVE LiveBytes(_)
LiveBytes(S) ==
    IF S = {} THEN 0
    ELSE LET a == CHOOSE x \in S : TRUE
         IN  align32(a[2] + 4) + LiveBytes(S \ {a})

\* No alloc so far had to ask the growth provider for anything: the run is
\* one a provider that grants nothing allows.
NothingGranted == \A i \in CallsOf("alloc") : hist[i].grows = NoGrow

\* C21: with a growth provider that grants nothing, after every sequence of
\* alloc and free calls the free-list node sizes plus align32(size + 4) of
\* the live allocations add up to the heap's initial size.
C21_SpaceConserved ==
    (kind = "heap" /\ status = "ok" /\ NothingGranted)
    => FreeBytes(1) + LiveBytes(live) = HeapSize

\* ------------------------------------------------------ resolver and scratch
\* Number of symbols the DLL's tables hold.
Installed(d) == Cardinality(DOMAIN d.names) + Cardinality(DOMAIN d.ordinals)

\* C22: a resolve calls the registration callback at most once, and only
\* for a symbol the DLL's tables do not hold yet; the address it registers
\* is stored in the name or ordinal table, the tables keep every entry, and
\* a resolve of a symbol they hold returns the stored address without
\* registering a stub.  So a builtin DLL has one stub per resolved symbol.
C22_ResolveCached ==
    [][(kind = "dll" /\ blast'.op = "resolve")
       => /\ Len(blast'.calls) <= 1
          /\ \A n \in DOMAIN dll.names : MapGet(dll'.names, n) = Some(dll.names[n])
          /\ \A o \in DOMAIN dll.ordinals :
                MapGet(dll'.ordinals, o) = Some(dll.ordinals[o])
          /\ ResolveFromPe(dll, blast'.arg) # None
             => /\ blast'.calls = <<>>
                /\ blast'.ret = ResolveFromPe(dll, blast'.arg)[1]
                /\ stubs' = stubs /\ ofs' = ofs /\ buf' = buf
          /\ (blast'.calls # <<>> /\ blast'.out = "ok")
             => /\ ResolveFromPe(dll', blast'.arg) = Some(blast'.ret)
                /\ blast'.ret = Last(stubs').addr
          /\ (dll.builtin # None /\ status' = "ok")
             => Len(stubs') = Installed(dll')]_vars

\* A symbol of the builtin DLL was resolved a second time and came back
\* with the address registered for it.
C22_Witness ==
    /\ kind = "dll" /\ status = "ok"
    /\ blast # <<>> /\ blast.op = "resolve" /\ blast.fromPe
    /\ dll.builtin # None
    /\ \E i \in 1 .. Len(stubs) : stubs[i].addr = blast.ret

\* C23: no write stores a byte outside the region [base, base + len): the
\* host memory behind the region stays as it was, also when a write does
\* not fit and ends the process.
C23_NoByteOutside ==
    kind \in {"scratch", "shims", "dll"}
    => \A i \in DOMAIN buf : i >= slen => buf[i] = 0

====
